---- MODULE Spec2Model ----
(***************************************************************************)
(* Instant Lead Response System (src/app.py).                              *)
(*                                                                         *)
(* The model follows one uvicorn process: FastAPI runs the async def       *)
(* endpoint submit_lead on the single event loop, and the handler calls    *)
(* its collaborators (Anthropic client, smtplib, sqlite3, subprocess)      *)
(* synchronously, without any await.  A connection's request therefore     *)
(* holds the event loop from the moment it is dispatched until its         *)
(* response has been produced.                                             *)
(***************************************************************************)
EXTENDS Integers, Sequences, FiniteSets, TLC

\* ------------------------------------------------------------------ bounds
\* client connections that may have a request outstanding at the same time
NumConns == 2
\* rows the leads table may hold before new requests stop being dispatched
MaxLeads == 2
\* rows the table may hold in the runs that start on a table of earlier
\* runs and take it past the recent-leads limit
MaxStatsLeads == 11

\* ------------------------------------------------------- program constants
NameMinLength == 2
NameMaxLength == 100
CompanyMinLength == 2
CompanyMaxLength == 100
MessageMinLength == 10
MessageMaxLength == 1000
PhoneMaxLength == 20
DefaultScore == 5

Conns == 1..NumConns

\* --------------------------------------------------------------- JSON data
\* A JSON / Python value, tagged by its type.  n is the number of an int
\* (or the number a numeric string spells), s the text of a str.
JAbsent == [t |-> "absent", n |-> 0, s |-> ""]
JNull == [t |-> "null", n |-> 0, s |-> ""]
JList == [t |-> "list", n |-> 0, s |-> ""]
JInt(n) == [t |-> "int", n |-> n, s |-> ""]
JStr(s) == [t |-> "str", n |-> 0, s |-> s]
JNumStr(n) == [t |-> "numstr", n |-> n, s |-> ""]

\* the value is a Python str, whether or not it spells a number
IsPyStr(v) == v.t \in {"str", "numstr"}

\* A request body field: a string of a given length, or None / not sent.
FNone == [t |-> "none", len |-> 0]
FStr(len) == [t |-> "str", len |-> len]

\* ------------------------------------------------------- LeadSubmission
GoodEmails == {"ana@x.com", "bo@y.org"}
NoEmail == "<missing>"

\* EmailStr: the email_validator syntax check, on the addresses of the model
EmailStrOK(e) == e \in GoodEmails

LenWithin(f, lo, hi) == f.t = "str" /\ f.len >= lo /\ f.len <= hi

\* mutant: the message field declared without its min_length
ValidationErrorsNoMessageMin(sub) ==
    (IF LenWithin(sub.name, NameMinLength, NameMaxLength) THEN {} ELSE {"name"})
    \cup (IF EmailStrOK(sub.email) THEN {} ELSE {"email"})
    \cup (IF LenWithin(sub.company, CompanyMinLength, CompanyMaxLength)
          THEN {} ELSE {"company"})
    \cup (IF LenWithin(sub.message, 0, MessageMaxLength)
          THEN {} ELSE {"message"})
    \cup (IF sub.phone.t = "none" \/ LenWithin(sub.phone, 0, PhoneMaxLength)
          THEN {} ELSE {"phone"})

\* class LeadSubmission(BaseModel): the names of the fields that fail
ValidationErrors(sub) ==
    (IF LenWithin(sub.name, NameMinLength, NameMaxLength) THEN {} ELSE {"name"})
    \cup (IF EmailStrOK(sub.email) THEN {} ELSE {"email"})
    \cup (IF LenWithin(sub.company, CompanyMinLength, CompanyMaxLength)
          THEN {} ELSE {"company"})
    \cup (IF LenWithin(sub.message, MessageMinLength, MessageMaxLength)
          THEN {} ELSE {"message"})
    \cup (IF sub.phone.t = "none" \/ LenWithin(sub.phone, 0, PhoneMaxLength)
          THEN {} ELSE {"phone"})

Validates(sub) == ValidationErrors(sub) = {}

\* The request bodies of the model: two valid submissions at the two ends of
\* every bound, and every single-field departure from the first.
SubA == [name |-> FStr(2), email |-> "ana@x.com", company |-> FStr(2),
         message |-> FStr(10), phone |-> FNone]
SubB == [name |-> FStr(100), email |-> "bo@y.org", company |-> FStr(100),
         message |-> FStr(1000), phone |-> FStr(20)]
Submissions ==
    {SubA, SubB}
    \cup {[SubA EXCEPT !.name = v] : v \in {FNone, FStr(1), FStr(101)}}
    \cup {[SubA EXCEPT !.company = v] : v \in {FNone, FStr(1), FStr(101)}}
    \cup {[SubA EXCEPT !.message = v] : v \in {FNone, FStr(9), FStr(1001)}}
    \cup {[SubA EXCEPT !.phone = v] : v \in {FStr(0), FStr(21)}}
    \cup {[SubA EXCEPT !.email = v] : v \in {"not-an-email", NoEmail}}

\* ------------------------------------------------------------ Lead Analyzer
\* The provider's reply text, as a sequence of lexical pieces: the fence
\* marker <fence>, the word json, white space, prose, and JSON documents.  A JSON
\* document is one piece, except the document whose reply string contains a
\* fence marker, which is the three pieces J_HEAD <fence> J_TAIL.
Fence == "<fence>"
WordJson == "json"
Space == "\n"
Prose == "Here is the analysis:"

\* json.loads of one whole document
DocValue(d) ==
    CASE d = "D_GOOD" ->
           [kind |-> "object", intent |-> JStr("demo_request"),
            score |-> JInt(9), response |-> JStr("Hi Ana")]
      [] d = "D_EMPTY" ->
           [kind |-> "object", intent |-> JAbsent,
            score |-> JAbsent, response |-> JAbsent]
      [] d = "D_BOGUS_INTENT" ->
           [kind |-> "object", intent |-> JStr("bogus_value"),
            score |-> JInt(9), response |-> JStr("Hi Ana")]
      [] d = "D_SCORE_11" ->
           [kind |-> "object", intent |-> JStr("demo_request"),
            score |-> JInt(11), response |-> JStr("Hi Ana")]
      [] d = "D_SCORE_STR" ->
           [kind |-> "object", intent |-> JStr("demo_request"),
            score |-> JStr("high"), response |-> JStr("Hi Ana")]
      [] d = "D_SCORE_NUMSTR" ->
           [kind |-> "object", intent |-> JStr("demo_request"),
            score |-> JNumStr(7), response |-> JStr("Hi Ana")]
      [] d = "D_SCORE_LIST" ->
           [kind |-> "object", intent |-> JStr("demo_request"),
            score |-> JList, response |-> JStr("Hi Ana")]
      [] d = "D_INTENT_INT" ->
           [kind |-> "object", intent |-> JInt(5),
            score |-> JInt(9), response |-> JStr("Hi Ana")]
      [] d = "D_REPLY_INT" ->
           [kind |-> "object", intent |-> JStr("demo_request"),
            score |-> JInt(9), response |-> JInt(5)]
      [] d = "D_REPLY_NUMSTR" ->
           [kind |-> "object", intent |-> JStr("demo_request"),
            score |-> JInt(9), response |-> JNumStr(7)]
      [] d = "D_FENCED_REPLY" ->
           [kind |-> "object", intent |-> JStr("demo_request"),
            score |-> JInt(9), response |-> JStr("Run <fence> to start")]
      [] d = "D_NO_SCORE" ->
           [kind |-> "object", intent |-> JStr("demo_request"),
            score |-> JAbsent, response |-> JStr("Hi Ana")]
      [] d = "D_NO_REPLY" ->
           [kind |-> "object", intent |-> JStr("demo_request"),
            score |-> JInt(9), response |-> JAbsent]
      [] d = "D_EMPTY_REPLY" ->
           [kind |-> "object", intent |-> JStr("demo_request"),
            score |-> JInt(9), response |-> JStr("")]
      [] d = "D_ARRAY" ->
           [kind |-> "array", intent |-> JAbsent,
            score |-> JAbsent, response |-> JAbsent]
      [] OTHER ->
           [kind |-> "error", intent |-> JAbsent,
            score |-> JAbsent, response |-> JAbsent]

\* the documents that are one piece, and all documents
WholeDocs == {"D_GOOD", "D_EMPTY", "D_BOGUS_INTENT", "D_SCORE_11",
              "D_SCORE_STR", "D_SCORE_NUMSTR", "D_SCORE_LIST", "D_ARRAY",
              "D_INTENT_INT", "D_REPLY_INT", "D_REPLY_NUMSTR"}
AllDocs == WholeDocs \cup {"D_FENCED_REPLY"}

\* objects that lack the score or the response, or hold an empty response
PartialDocs == {"D_NO_SCORE", "D_NO_REPLY", "D_EMPTY_REPLY"}

\* the text of a document
DocText(d) ==
    IF d = "D_FENCED_REPLY" THEN <<"J_HEAD", Fence, "J_TAIL">> ELSE <<d>>

\* str.strip(): white space dropped at both ends
RECURSIVE LStrip(_)
LStrip(t) == IF t # <<>> /\ Head(t) = Space THEN LStrip(Tail(t)) ELSE t
RECURSIVE RStrip(_)
RStrip(t) ==
    IF t # <<>> /\ t[Len(t)] = Space THEN RStrip(SubSeq(t, 1, Len(t) - 1)) ELSE t
Strip(t) == RStrip(LStrip(t))

\* position of the first <fence> at or after position from, 0 when there is none
FindFence(t, from) ==
    LET hits == {i \in from..Len(t) : t[i] = Fence}
    IN IF hits = {} THEN 0 ELSE CHOOSE i \in hits : \A j \in hits : i <= j

\* position of the first fence+json at or after position from, 0 when none
FindFenceJson(t, from) ==
    LET hits == {i \in from..(Len(t) - 1) : t[i] = Fence /\ t[i + 1] = WordJson}
    IN IF hits = {} THEN 0 ELSE CHOOSE i \in hits : \A j \in hits : i <= j

\* the two membership tests: fence+json in text, fence in text
HasFenceJson(t) == FindFenceJson(t, 1) # 0
HasFence(t) == FindFence(t, 1) # 0

\* text.split(fence)[0]
SplitFenceFirst(t) ==
    IF HasFence(t) THEN SubSeq(t, 1, FindFence(t, 1) - 1) ELSE t

\* text.split(fence)[1], for a text that holds <fence>
SplitFenceSecond(t) ==
    LET a == FindFence(t, 1)
        b == FindFence(t, a + 1)
    IN SubSeq(t, a + 1, IF b = 0 THEN Len(t) ELSE b - 1)

\* text.split(fence+json)[1], for a text that holds fence+json
SplitFenceJsonSecond(t) ==
    LET a == FindFenceJson(t, 1)
        b == FindFenceJson(t, a + 2)
    IN SubSeq(t, a + 2, IF b = 0 THEN Len(t) ELSE b - 1)

\* process_lead_with_ai, "Extract JSON (handle potential markdown wrapping)"
ExtractJson(t) ==
    IF HasFenceJson(t) THEN Strip(SplitFenceFirst(SplitFenceJsonSecond(t)))
    ELSE IF HasFence(t) THEN Strip(SplitFenceFirst(SplitFenceSecond(t)))
    ELSE t

\* json.loads: one document, white space around it allowed
JsonLoads(t) ==
    LET u == Strip(t)
    IN IF Len(u) = 1 /\ u[1] \in WholeDocs \cup PartialDocs
       THEN DocValue(u[1])
       ELSE IF u = DocText("D_FENCED_REPLY") THEN DocValue("D_FENCED_REPLY")
       ELSE DocValue("<undecodable>")

\* mutant: the key read without its default
DictGetWithoutDefault(v, default) == v

\* dict.get(key, default)
DictGet(v, default) == IF v.t = "absent" THEN default ELSE v

\* the dict process_lead_with_ai returns
AnalysisOf(obj) ==
    [intent_classification |-> DictGet(obj.intent, JStr("unknown")),
     lead_score |-> DictGet(obj.score, JInt(DefaultScore)),
     ai_response |-> DictGet(obj.response, JStr(""))]

NoAnalysis == [intent_classification |-> JAbsent, lead_score |-> JAbsent,
               ai_response |-> JAbsent]

\* process_lead_with_ai from the provider's reply on: the parsed result, or
\* the exception that leaves the function
ParseReply(text) ==
    LET v == JsonLoads(ExtractJson(text))
    IN IF v.kind = "error"
       THEN [ok |-> FALSE, error |-> "JSONDecodeError", result |-> NoAnalysis]
       ELSE IF v.kind # "object"
       THEN [ok |-> FALSE, error |-> "AttributeError", result |-> NoAnalysis]
       ELSE [ok |-> TRUE, error |-> "", result |-> AnalysisOf(v)]

\* the three presentations of a document
Bare(d) == DocText(d)
TaggedFence(d) == <<Fence, WordJson, Space>> \o DocText(d) \o <<Space, Fence>>
BareFence(d) == <<Fence, Space>> \o DocText(d) \o <<Space, Fence>>

\* every document of the model in its three presentations, prose before a
\* fenced document, a reply cut short and an empty reply
AnalyzerTexts ==
    {Bare(d) : d \in AllDocs}
    \cup {TaggedFence(d) : d \in AllDocs}
    \cup {BareFence(d) : d \in AllDocs}
    \cup {<<Prose, Space>> \o TaggedFence("D_EMPTY"), <<"D_TRUNCATED">>, <<>>}

\* the replies of the pipeline runs: two documents that parse into a result
\* the store takes, one whose score the store cannot bind, and three failures
PipelineTexts ==
    {Bare("D_GOOD"), TaggedFence("D_GOOD"), BareFence("D_EMPTY"),
     Bare("D_SCORE_LIST"), Bare("D_ARRAY"), <<"D_TRUNCATED">>}

\* ---------------------------------------------------------------- Responder
\* what an SMTP session does: the step that raises, or "sent" when the with
\* block and its QUIT both completed
SmtpOutcomes == {"connect_error", "starttls_error", "login_error",
                 "send_error", "quit_error", "sent"}

\* the transport took the message: server.send_message returned
TransportAccepted(smtp) == smtp \in {"sent", "quit_error"}

\* mutant: return True placed where an SMTP error also reaches it
SendEmailResponseAlwaysTrue(config, response_body, smtp) ==
    IF ~config.smtp
    THEN [ret |-> FALSE, accepted |-> FALSE]
    ELSE [ret |-> TRUE,
          accepted |-> IsPyStr(response_body) /\ TransportAccepted(smtp)]

\* send_email_response: the bool it returns and whether the transport took
\* the message.  Nothing raised past the all([...]) test leaves the function.
SendEmailResponse(config, response_body, smtp) ==
    IF ~config.smtp
    THEN [ret |-> FALSE, accepted |-> FALSE]
    ELSE IF ~IsPyStr(response_body)
    THEN [ret |-> FALSE, accepted |-> FALSE]
    ELSE [ret |-> (smtp = "sent"), accepted |-> TransportAccepted(smtp)]

\* ------------------------------------------------------------- Record Store
\* sqlite3 binds None, int and str parameters; a list raises
Bindable(v) == v.t \in {"null", "int", "str", "numstr"}

\* column lead_score INTEGER: a string that spells a number is stored as it
IntegerAffinity(v) == IF v.t = "numstr" THEN JInt(v.n) ELSE v

\* columns intent_classification and ai_response TEXT: an integer is stored
\* as the text that spells it
TextAffinity(v) == IF v.t = "int" THEN JNumStr(v.n) ELSE v

\* mutant: an id column without a fresh value per insert
NextRowIdReused(last) == IF last = 0 THEN 1 ELSE last

\* AUTOINCREMENT: one more than the largest rowid the table ever held
NextRowId(last) == last + 1

DbFaults == {"none", "operational_error"}

\* the row INSERT writes for lead_data
RowOf(id, lead_data) ==
    [id |-> id,
     name |-> lead_data.name,
     email |-> lead_data.email,
     company |-> lead_data.company,
     message |-> lead_data.message,
     phone |-> lead_data.phone,
     lead_score |-> IntegerAffinity(lead_data.lead_score),
     intent_classification |->
         TextAffinity(lead_data.intent_classification),
     response_time_ms |-> lead_data.response_time_ms,
     email_sent |-> lead_data.email_sent,
     ai_response |-> TextAffinity(lead_data.ai_response)]

\* mutant: the INSERT executed twice
SaveLeadTwice(rows, last, lead_data, fault) ==
    IF fault # "none"
       \/ ~Bindable(lead_data.lead_score)
       \/ ~Bindable(lead_data.intent_classification)
       \/ ~Bindable(lead_data.ai_response)
    THEN [ok |-> FALSE, rows |-> rows, last |-> last, lead_id |-> 0]
    ELSE [ok |-> TRUE,
          rows |-> Append(Append(rows, RowOf(NextRowId(last), lead_data)),
                          RowOf(NextRowId(last) + 1, lead_data)),
          last |-> NextRowId(last) + 1,
          lead_id |-> NextRowId(last) + 1]

\* mutant: the fault raised after the commit, so the row stays
SaveLeadFaultAfterCommit(rows, last, lead_data, fault) ==
    IF ~Bindable(lead_data.lead_score)
       \/ ~Bindable(lead_data.intent_classification)
       \/ ~Bindable(lead_data.ai_response)
    THEN [ok |-> FALSE, rows |-> rows, last |-> last, lead_id |-> 0]
    ELSE [ok |-> fault = "none",
          rows |-> Append(rows, RowOf(NextRowId(last), lead_data)),
          last |-> NextRowId(last),
          lead_id |-> IF fault = "none" THEN NextRowId(last) ELSE 0]

\* mutant: the id returned is the largest id read before the INSERT
SaveLeadReturnsPreviousId(rows, last, lead_data, fault) ==
    IF fault # "none"
       \/ ~Bindable(lead_data.lead_score)
       \/ ~Bindable(lead_data.intent_classification)
       \/ ~Bindable(lead_data.ai_response)
    THEN [ok |-> FALSE, rows |-> rows, last |-> last, lead_id |-> 0]
    ELSE [ok |-> TRUE,
          rows |-> Append(rows, RowOf(NextRowId(last), lead_data)),
          last |-> NextRowId(last),
          lead_id |-> last]

\* save_lead: connect, INSERT, lastrowid, commit.  A fault of the database or
\* a parameter sqlite3 cannot bind raises before the commit: no row is kept.
SaveLead(rows, last, lead_data, fault) ==
    IF fault # "none"
       \/ ~Bindable(lead_data.lead_score)
       \/ ~Bindable(lead_data.intent_classification)
       \/ ~Bindable(lead_data.ai_response)
    THEN [ok |-> FALSE, rows |-> rows, last |-> last, lead_id |-> 0]
    ELSE [ok |-> TRUE,
          rows |-> Append(rows, RowOf(NextRowId(last), lead_data)),
          last |-> NextRowId(last),
          lead_id |-> NextRowId(last)]

\* ----------------------------------------------------------------- Notifier
NotifyOutcomes == {"exit_0", "exit_1", "timeout_expired", "os_error"}

\* mutant: an except clause that does not cover subprocess.TimeoutExpired
SendTelegramNotificationTimeoutEscapes(config, outcome) ==
    [ran |-> config.telegram,
     raised |-> config.telegram /\ outcome = "timeout_expired"]

\* send_telegram_notification: whether the subprocess was run and whether an
\* exception leaves the function (the try/except Exception swallows them all)
SendTelegramNotification(config, outcome) ==
    [ran |-> config.telegram, raised |-> FALSE]

\* -------------------------------------------------------------- statistics
\* LIMIT 10 of the recent-leads query
RecentLimit == 10

\* DEFAULT CURRENT_TIMESTAMP: the clock read to the second
CurrentTimestamp(now) == now

\* how sqlite3 stores and compares a Python bool: True is 1, False is 0
SqlInteger(b) == IF b THEN 1 ELSE 0

\* SELECT COUNT(*) FROM leads
CountAll(rows) == Len(rows)

\* SELECT COUNT(*) FROM leads WHERE email_sent = 1
CountEmailSent(rows) ==
    Cardinality({i \in DOMAIN rows : SqlInteger(rows[i].email_sent) = 1})

RECURSIVE SumResponseTime(_, _)
SumResponseTime(rows, n) ==
    IF n = 0 THEN 0
    ELSE rows[n].response_time_ms + SumResponseTime(rows, n - 1)

\* int(x) of a quotient a / b with b > 0: cut towards zero
IntOfQuotient(a, b) ==
    IF a >= 0 THEN a \div b ELSE 0 - ((0 - a) \div b)

\* SELECT AVG(response_time_ms) ... fetchone()[0] or 0, then
\* int(avg_response) if avg_response else 0: the mean cut towards zero
\* (response_time_ms is never NULL in a row save_lead wrote)
AvgResponseTimeMs(rows) ==
    IF Len(rows) = 0 THEN 0
    ELSE IntOfQuotient(SumResponseTime(rows, Len(rows)), Len(rows))

\* A Python number of get_stats: an int n, or a float that is not negative,
\* an IEEE 754 double.  A float that is not zero is mant * 2^exp, mant a
\* number of MantissaBits binary digits, first digit first, the first one 1;
\* the float zero has no digits.
MantissaBits == 53

PyInt(n) == [t |-> "int", n |-> n, mant |-> <<>>, exp |-> 0]
PyFloat(mant, exp) == [t |-> "float", n |-> 0, mant |-> mant, exp |-> exp]

\* the binary digits of a natural number, none for 0
RECURSIVE IntBits(_)
IntBits(q) == IF q = 0 THEN <<>> ELSE Append(IntBits(q \div 2), q % 2)

\* long division: the next n binary digits of r / b for r < b, and the
\* remainder after them
RECURSIVE QuotientBits(_, _, _)
QuotientBits(r, b, n) ==
    IF n = 0 THEN <<>>
    ELSE IF 2 * r >= b THEN <<1>> \o QuotientBits(2 * r - b, b, n - 1)
    ELSE <<0>> \o QuotientBits(2 * r, b, n - 1)

RECURSIVE RemainderAfter(_, _, _)
RemainderAfter(r, b, n) ==
    IF n = 0 THEN r
    ELSE IF 2 * r >= b THEN RemainderAfter(2 * r - b, b, n - 1)
    ELSE RemainderAfter(2 * r, b, n - 1)

\* the zero digits r / b starts with after the binary point, for 0 < r < b
RECURSIVE LeadingZeros(_, _)
LeadingZeros(r, b) == IF 2 * r >= b THEN 0 ELSE 1 + LeadingZeros(2 * r, b)

Zeros(n) == [i \in 1..n |-> 0]

\* a binary number plus one: the last 0 becomes 1 and the digits after it 0
IncBits(bits) ==
    IF \A i \in DOMAIN bits : bits[i] = 1
    THEN <<1>> \o Zeros(Len(bits))
    ELSE LET k == CHOOSE i \in DOMAIN bits :
                      /\ bits[i] = 0
                      /\ \A j \in (i + 1)..Len(bits) : bits[j] = 1
         IN [i \in DOMAIN bits |->
                IF i < k THEN bits[i] ELSE IF i = k THEN 1 ELSE 0]

\* the carry into digit i of the sum of two binary numbers of one length
RECURSIVE CarryInto(_, _, _)
CarryInto(x, y, i) ==
    IF i = Len(x) THEN 0
    ELSE (x[i + 1] + y[i + 1] + CarryInto(x, y, i + 1)) \div 2

\* the sum of two binary numbers
AddBits(x, y) ==
    LET n == IF Len(x) < Len(y) THEN Len(y) ELSE Len(x)
        px == Zeros(n + 1 - Len(x)) \o x
        py == Zeros(n + 1 - Len(y)) \o y
    IN [i \in 1..(n + 1) |-> (px[i] + py[i] + CarryInto(px, py, i)) % 2]

\* the product of m and the first i digits of k, by shift and add
RECURSIVE MulBits(_, _, _)
MulBits(m, k, i) ==
    IF i = 0 THEN <<>>
    ELSE IF k[i] = 1 THEN AddBits(Append(MulBits(m, k, i - 1), 0), m)
    ELSE Append(MulBits(m, k, i - 1), 0)

\* a binary number without the zeros it starts with
StripZeros(bits) ==
    IF \A i \in DOMAIN bits : bits[i] = 0 THEN <<>>
    ELSE LET k == CHOOSE i \in DOMAIN bits :
                      bits[i] = 1 /\ \A j \in 1..(i - 1) : bits[j] = 0
         IN SubSeq(bits, k, Len(bits))

\* round to nearest, ties to even: the double nearest to bits * 2^exp, plus
\* a fraction of the last digit that is not zero when sticky.  bits starts
\* with 1.
RoundNearestEven(bits, sticky, exp) ==
    LET len == Len(bits)
    IN IF len <= MantissaBits
       THEN PyFloat(bits \o Zeros(MantissaBits - len),
                    exp - (MantissaBits - len))
       ELSE LET keep == SubSeq(bits, 1, MantissaBits)
                guard == bits[MantissaBits + 1]
                rest == sticky \/ \E i \in (MantissaBits + 2)..len :
                                      bits[i] = 1
                up == guard = 1 /\ (rest \/ keep[MantissaBits] = 1)
                m == IF up THEN IncBits(keep) ELSE keep
            IN IF Len(m) > MantissaBits
               THEN PyFloat(SubSeq(m, 1, MantissaBits),
                            exp + (len - MantissaBits) + 1)
               ELSE PyFloat(m, exp + (len - MantissaBits))

\* a / b of two ints, a >= 0 and b > 0: the double nearest to the quotient
FloatOfQuotient(a, b) ==
    IF a = 0 THEN PyFloat(<<>>, 0)
    ELSE IF a >= b
    THEN LET whole == IntBits(a \div b)
             n == MantissaBits + 1 - Len(whole)
         IN RoundNearestEven(whole \o QuotientBits(a % b, b, n),
                             RemainderAfter(a % b, b, n) # 0, 0 - n)
    ELSE LET z == LeadingZeros(a, b)
             r == RemainderAfter(a, b, z)
             n == MantissaBits + 1
         IN RoundNearestEven(QuotientBits(r, b, n),
                             RemainderAfter(r, b, n) # 0, 0 - z - n)

\* x * k of a float and an int k > 0: the double nearest to the product
FloatTimesInt(x, k) ==
    IF x.mant = <<>> THEN x
    ELSE RoundNearestEven(
             StripZeros(MulBits(x.mant, IntBits(k), Len(IntBits(k)))),
             FALSE, x.exp)

\* x <= y of two binary numbers of one length
BitsLeq(x, y) ==
    \/ x = y
    \/ \E i \in DOMAIN x :
         /\ x[i] < y[i]
         /\ \A j \in 1..(i - 1) : x[j] = y[j]

\* x <= y of two floats that are not negative
FloatLeq(x, y) ==
    IF x.mant = <<>> THEN TRUE
    ELSE IF y.mant = <<>> THEN FALSE
    ELSE IF x.exp # y.exp THEN x.exp < y.exp
    ELSE BitsLeq(x.mant, y.mant)

\* (emails_sent / total_leads * 100) if total_leads > 0 else 0: the
\* quotient is rounded to a double, and so is its product with 100
EmailSuccessRate(emails_sent, total_leads) ==
    IF total_leads > 0
    THEN FloatTimesInt(FloatOfQuotient(emails_sent, total_leads), 100)
    ELSE PyInt(0)

\* ORDER BY created_at DESC: row i comes before row j.  The query names no
\* second key; rows of one second keep the order of the table scan, which
\* is the order of their rowids.
ComesBefore(stamps, i, j) ==
    \/ stamps[i] > stamps[j]
    \/ stamps[i] = stamps[j] /\ i < j

\* the rowids of the table in the order of ORDER BY created_at DESC
OrderByCreatedAtDesc(stamps) ==
    [k \in 1..Len(stamps) |->
        CHOOSE i \in 1..Len(stamps) :
            Cardinality({j \in 1..Len(stamps) : ComesBefore(stamps, j, i)})
                = k - 1]

\* LIMIT n
Limit(s, n) == SubSeq(s, 1, IF Len(s) < n THEN Len(s) ELSE n)

\* the rows the recent-leads query selects, by rowid, first row first
RecentRowIds(stamps) == Limit(OrderByCreatedAtDesc(stamps), RecentLimit)

\* the list of dicts built from the rows of the recent-leads query
RecentLeads(rows, stamps) ==
    [k \in 1..Len(RecentRowIds(stamps)) |->
        LET i == RecentRowIds(stamps)[k]
        IN [name |-> rows[i].name, company |-> rows[i].company,
            score |-> rows[i].lead_score,
            response_time_ms |-> rows[i].response_time_ms,
            timestamp |-> stamps[i]]]

\* mutant: the recent-leads query without its LIMIT
GetStatsWithoutLimit(rows, stamps) ==
    [total_leads |-> CountAll(rows),
     avg_response_time_ms |-> AvgResponseTimeMs(rows),
     emails_sent |-> CountEmailSent(rows),
     email_success_rate |->
         EmailSuccessRate(CountEmailSent(rows), CountAll(rows)),
     recent_leads |->
         [k \in 1..Len(rows) |->
             LET i == OrderByCreatedAtDesc(stamps)[k]
             IN [name |-> rows[i].name, company |-> rows[i].company,
                 score |-> rows[i].lead_score,
                 response_time_ms |-> rows[i].response_time_ms,
                 timestamp |-> stamps[i]]]]

\* get_stats: the dict it returns for the table as it stands
GetStats(rows, stamps) ==
    [total_leads |-> CountAll(rows),
     avg_response_time_ms |-> AvgResponseTimeMs(rows),
     emails_sent |-> CountEmailSent(rows),
     email_success_rate |->
         EmailSuccessRate(CountEmailSent(rows), CountAll(rows)),
     recent_leads |-> RecentLeads(rows, stamps)]

\* the dict of an empty table, held while no answer is there
NoStats == GetStats(<<>>, <<>>)

\* ------------------------------------------------------------------- state
VARIABLES
    config,     \* the module globals read from the environment at import
    leads,      \* the rows of table leads, in insertion order
    sqlite_seq, \* sqlite_sequence: the largest id table leads ever held
    loop,       \* the connection whose handler runs on the event loop, or 0
    conn,       \* per connection: its request and the handler's position
    accepted,   \* the lead_id of every success envelope returned so far
    created_at, \* column created_at of table leads, row by row, in seconds
    clock,      \* the wall clock in seconds, as CURRENT_TIMESTAMP reads it
    stats       \* the client of GET /api/stats: its request and the answer

vars == <<config, leads, sqlite_seq, loop, conn, accepted, created_at, clock,
          stats>>

NoSub == [name |-> FNone, email |-> NoEmail, company |-> FNone,
          message |-> FNone, phone |-> FNone]
NoCalls == [analyzer |-> 0, provider |-> 0, responder |-> 0,
            store |-> 0, notifier |-> 0]
NoResponse == [status |-> 0, has |-> {}, lead_id |-> 0,
               response_time_ms |-> 0, detail |-> ""]

\* mutant: the envelope built without lead_id, which then stays None
LeadResponseWithoutLeadId(lead_id, response_time_ms) ==
    [status |-> 200,
     has |-> {"success", "message", "response_time_ms"},
     lead_id |-> 0, response_time_ms |-> response_time_ms, detail |-> ""]

\* LeadResponse(success=True, message=..., lead_id=..., response_time_ms=...)
LeadResponse(lead_id, response_time_ms) ==
    [status |-> 200,
     has |-> {"success", "message", "lead_id", "response_time_ms"},
     lead_id |-> lead_id, response_time_ms |-> response_time_ms, detail |-> ""]

\* HTTPException(status_code=500, detail=str(e))
HTTPException500(detail) ==
    [status |-> 500, has |-> {"detail"}, lead_id |-> 0,
     response_time_ms |-> 0, detail |-> detail]

\* the validation error FastAPI answers before the endpoint is called
RequestValidationError(sub) ==
    [status |-> 422, has |-> {"detail"}, lead_id |-> 0,
     response_time_ms |-> 0, detail |-> "validation"]

IdleConn ==
    [pc |-> "idle", sub |-> NoSub, ai_result |-> NoAnalysis,
     email_sent |-> FALSE, transport_accepted |-> FALSE,
     elapsed |-> 0, response_time_ms |-> 0, lead_id |-> 0,
     resp |-> NoResponse, before |-> <<>>, calls |-> NoCalls,
     failure |-> "", notified |-> "", reply |-> <<>>]

\* the client of GET /api/stats before it asks.  before and recent_ids are
\* kept beside the answer: the table as get_stats found it, and the rowids
\* of the rows behind recent_leads.
IdleStats ==
    [pc |-> "idle", status |-> 0, result |-> NoStats, before |-> <<>>,
     recent_ids |-> <<>>]

Configs == [api_key : BOOLEAN, smtp : BOOLEAN, telegram : BOOLEAN]

Init ==
    /\ config \in Configs
    /\ leads = <<>>
    /\ sqlite_seq = 0
    /\ loop = 0
    /\ conn = [c \in Conns |-> IdleConn]
    /\ accepted = <<>>
    /\ created_at = <<>>
    /\ clock = 0
    /\ stats = IdleStats

\* the readings of time.time() are counted in ticks of half a millisecond
TicksPerMs == 2

\* int((time.time() - start_time) * 1000): elapsed is the difference of the
\* two readings of the wall clock, which is negative when the clock was set
\* back between them; int() cuts towards zero
ResponseTimeMs(elapsed) == IntOfQuotient(elapsed, TicksPerMs)

\* the dict submit_lead builds for save_lead and the Notifier
LeadData(r) ==
    [name |-> r.sub.name, email |-> r.sub.email, company |-> r.sub.company,
     message |-> r.sub.message, phone |-> r.sub.phone,
     lead_score |-> r.ai_result.lead_score,
     intent_classification |-> r.ai_result.intent_classification,
     response_time_ms |-> r.response_time_ms,
     email_sent |-> r.email_sent,
     ai_response |-> r.ai_result.ai_response]

\* mutant: the except clause answering 200 with success=False
RejectedWithStatus200(r, failure, detail) ==
    [r EXCEPT !.pc = "responded", !.failure = failure,
              !.resp = [status |-> 200, has |-> {"success", "message"},
                        lead_id |-> 0, response_time_ms |-> 0,
                        detail |-> ""]]

\* mutant: a failed save_lead called a second time before giving up
RejectedRetriesSave(r, failure, detail) ==
    IF failure = "persistence" /\ r.calls.store < 2
    THEN [r EXCEPT !.pc = "saving", !.calls.store = @ + 1]
    ELSE [r EXCEPT !.pc = "responded", !.failure = failure,
                   !.resp = HTTPException500(detail)]

\* except Exception as e: raise HTTPException(status_code=500, detail=str(e))
Rejected(r, failure, detail) ==
    [r EXCEPT !.pc = "responded", !.failure = failure,
              !.resp = HTTPException500(detail)]

\* mutant: the check of the API key left out
KeyCheckSkipped(cfg) == TRUE

\* if not ANTHROPIC_API_KEY: raise ValueError(...) does not fire
KeyConfigured(cfg) == cfg.api_key

\* a client sends POST /api/submit-lead; the request waits for the event loop
Arrive(c) ==
    /\ conn[c].pc = "idle"
    /\ conn' = [conn EXCEPT ![c].pc = "pending"]
    /\ UNCHANGED <<config, leads, created_at, clock, stats, sqlite_seq, loop, accepted>>

\* The event loop takes the request: FastAPI validates the body, calls
\* submit_lead, which takes start_time and enters process_lead_with_ai up to
\* client.messages.create.  cap bounds the rows of the run.
Dispatch(c, Subs, cap) ==
    /\ loop = 0
    /\ conn[c].pc = "pending"
    /\ Len(leads) < cap
    /\ \E sub \in Subs :
         LET r0 == [conn[c] EXCEPT !.sub = sub, !.before = leads]
             r1 == [r0 EXCEPT !.calls.analyzer = 1]
         IN conn' = [conn EXCEPT ![c] =
              IF ~Validates(sub)
              THEN [r0 EXCEPT !.pc = "responded", !.failure = "validation",
                              !.resp = RequestValidationError(sub)]
              ELSE IF ~KeyConfigured(config)
              THEN Rejected(r1, "analysis", "ANTHROPIC_API_KEY not set")
              ELSE [r1 EXCEPT !.pc = "analyzing", !.calls.provider = 1]]
    /\ loop' = c
    /\ UNCHANGED <<config, leads, created_at, clock, stats, sqlite_seq, accepted>>

\* client.messages.create returns or raises; the reply is parsed; on success
\* submit_lead enters send_email_response
ProviderFaults == {"APIError", "APITimeoutError"}

AnalyzerReturns(c, Texts, Ticks) ==
    /\ conn[c].pc = "analyzing"
    /\ \E dt \in Ticks :
         LET r0 == [conn[c] EXCEPT !.elapsed = @ + dt]
         IN \/ \E e \in ProviderFaults :
                 conn' = [conn EXCEPT ![c] = Rejected(r0, "analysis", e)]
            \/ \E text \in Texts :
                 LET p == ParseReply(text)
                     r1 == [r0 EXCEPT !.reply = <<text>>]
                 IN conn' = [conn EXCEPT ![c] =
                      IF ~p.ok
                      THEN Rejected(r1, "analysis", p.error)
                      ELSE [r1 EXCEPT !.pc = "emailing",
                                      !.ai_result = p.result,
                                      !.calls.responder = @ + 1]]
    /\ UNCHANGED <<config, leads, created_at, clock, stats, sqlite_seq, loop, accepted>>

\* send_email_response returns; response_time_ms is taken, lead_data built,
\* and submit_lead enters save_lead
ResponderReturns(c, Ticks) ==
    /\ conn[c].pc = "emailing"
    /\ \E dt \in Ticks, smtp \in SmtpOutcomes :
         LET sent == SendEmailResponse(config, conn[c].ai_result.ai_response, smtp)
         IN conn' = [conn EXCEPT ![c] =
              [@ EXCEPT !.pc = "saving",
                        !.elapsed = @ + dt,
                        !.email_sent = sent.ret,
                        !.transport_accepted = sent.accepted,
                        !.response_time_ms = ResponseTimeMs(conn[c].elapsed + dt),
                        !.calls.store = @ + 1]]
    /\ UNCHANGED <<config, leads, created_at, clock, stats, sqlite_seq, loop, accepted>>

\* save_lead returns the new id or raises; on success submit_lead enters
\* send_telegram_notification
SaveReturns(c, Ticks) ==
    /\ conn[c].pc = "saving"
    /\ \E dt \in Ticks, fault \in DbFaults :
         LET r0 == [conn[c] EXCEPT !.elapsed = @ + dt]
             saved == SaveLead(leads, sqlite_seq, LeadData(conn[c]), fault)
         IN /\ leads' = saved.rows
            /\ created_at' = IF saved.ok
                              THEN Append(created_at, CurrentTimestamp(clock))
                              ELSE created_at
            /\ sqlite_seq' = saved.last
            /\ conn' = [conn EXCEPT ![c] =
                 IF ~saved.ok
                 THEN Rejected(r0, "persistence", "sqlite3.Error")
                 ELSE [r0 EXCEPT !.pc = "notifying",
                                 !.lead_id = saved.lead_id,
                                 !.calls.notifier = @ + 1]]
    /\ UNCHANGED <<config, loop, accepted, clock, stats>>

\* send_telegram_notification returns; submit_lead returns the envelope
NotifierReturns(c, Ticks) ==
    /\ conn[c].pc = "notifying"
    /\ \E dt \in Ticks, outcome \in NotifyOutcomes :
         LET r0 == [conn[c] EXCEPT !.elapsed = @ + dt,
                                   !.notified = IF config.telegram
                                                THEN outcome ELSE "unconfigured"]
             sent == SendTelegramNotification(config, outcome)
         IN IF sent.raised
            THEN /\ conn' = [conn EXCEPT ![c] =
                                Rejected(r0, "notification", outcome)]
                 /\ UNCHANGED accepted
            ELSE /\ conn' = [conn EXCEPT ![c] =
                      [r0 EXCEPT !.pc = "responded",
                                 !.resp = LeadResponse(r0.lead_id,
                                                       r0.response_time_ms)]]
                 /\ accepted' = Append(accepted, conn[c].lead_id)
    /\ UNCHANGED <<config, leads, created_at, clock, stats, sqlite_seq, loop>>

\* the response has been written: the event loop is free again
Finish(c) ==
    /\ conn[c].pc = "responded"
    /\ loop = c
    /\ conn' = [conn EXCEPT ![c] = IdleConn]
    /\ loop' = 0
    /\ UNCHANGED <<config, leads, created_at, clock, stats, sqlite_seq, accepted>>

\* The pipeline with the clock standing still within a request.
\* the system clock is set back by a second.  It is taken only once a row
\* carries the current second, so the clock moves at most once per row.
ClockSetBack ==
    /\ created_at # <<>>
    /\ created_at[Len(created_at)] = clock
    /\ clock' = clock - 1
    /\ UNCHANGED <<config, leads, created_at, sqlite_seq, loop, conn,
                   accepted, stats>>

\* a second of wall-clock time passes.  It is taken only once a row carries
\* the current second, so the clock never runs ahead of the table.
Tick ==
    /\ created_at # <<>>
    /\ created_at[Len(created_at)] = clock
    /\ clock' = clock + 1
    /\ UNCHANGED <<config, leads, created_at, sqlite_seq, loop, conn,
                   accepted, stats>>

\* a client sends GET /api/stats; the request waits for the event loop
ArriveStats ==
    /\ stats.pc = "idle"
    /\ stats' = [stats EXCEPT !.pc = "pending"]
    /\ UNCHANGED <<config, leads, created_at, clock, sqlite_seq, loop, conn,
                   accepted>>

\* get_system_stats runs get_stats to its return without leaving the event
\* loop: the four queries read the table between two steps of the
\* submissions.  A fault of the database leaves the handler as an unhandled
\* exception, answered with status 500.
ServeStats ==
    /\ loop = 0
    /\ stats.pc = "pending"
    /\ \E fault \in DbFaults :
         stats' = IF fault = "none"
                  THEN [pc |-> "responded", status |-> 200,
                        result |-> GetStats(leads, created_at),
                        before |-> leads,
                        recent_ids |-> RecentRowIds(created_at)]
                  ELSE [IdleStats EXCEPT !.pc = "responded", !.status = 500,
                                         !.before = leads]
    /\ UNCHANGED <<config, leads, created_at, clock, sqlite_seq, loop, conn,
                   accepted>>

\* the client of the statistics reads the answer and may ask again
FinishStats ==
    /\ stats.pc = "responded"
    /\ stats' = IdleStats
    /\ UNCHANGED <<config, leads, created_at, clock, sqlite_seq, loop, conn,
                   accepted>>

Next ==
    \E c \in Conns :
        \/ Arrive(c)
        \/ Dispatch(c, Submissions, MaxLeads)
        \/ AnalyzerReturns(c, PipelineTexts, {0})
        \/ ResponderReturns(c, {0})
        \/ SaveReturns(c, {0})
        \/ NotifierReturns(c, {0})
        \/ Finish(c)

Spec == Init /\ [][Next]_vars

\* The Analyzer on every reply text of the model, for one submission.
NextAnalyzer ==
    \E c \in Conns :
        \/ Arrive(c)
        \/ Dispatch(c, {SubA}, MaxLeads)
        \/ AnalyzerReturns(c, AnalyzerTexts, {0})
        \/ ResponderReturns(c, {0})
        \/ SaveReturns(c, {0})
        \/ NotifierReturns(c, {0})
        \/ Finish(c)

SpecAnalyzer == Init /\ [][NextAnalyzer]_vars

\* The pipeline with the wall clock: while a collaborator call runs, the
\* reading of time.time() stays, moves on by a tick, or falls back by a tick
\* (the system clock is set back).
WallClockSteps == {0 - 1, 0, 1}

NextTimed ==
    \E c \in Conns :
        \/ Arrive(c)
        \/ Dispatch(c, {SubA}, MaxLeads)
        \/ AnalyzerReturns(c, {Bare("D_GOOD"), <<"D_TRUNCATED">>},
                           WallClockSteps)
        \/ ResponderReturns(c, WallClockSteps)
        \/ SaveReturns(c, WallClockSteps)
        \/ NotifierReturns(c, WallClockSteps)
        \/ Finish(c)

SpecTimed == Init /\ [][NextTimed]_vars

\* The pipeline runs of one valid submission, with one reply of each fate:
\* stored, refused by the store, undecodable.
LiveTexts == {Bare("D_GOOD"), Bare("D_SCORE_LIST"), <<"D_TRUNCATED">>}

\* A handler that holds the event loop runs on: every collaborator call it
\* is in returns or raises, and the response is written.
HandlerStep(c) ==
    \/ AnalyzerReturns(c, LiveTexts, {0})
    \/ ResponderReturns(c, {0})
    \/ SaveReturns(c, {0})
    \/ NotifierReturns(c, {0})
    \/ Finish(c)

NextLive ==
    \E c \in Conns :
        \/ Arrive(c)
        \/ Dispatch(c, {SubA, [SubA EXCEPT !.message = FStr(9)]}, MaxLeads)
        \/ HandlerStep(c)

FairSpec ==
    Init /\ [][NextLive]_vars /\ \A c \in Conns : WF_vars(HandlerStep(c))

\* The statistics beside the pipeline, with the wall clock: leads are
\* stored within one second, seconds apart, or after the clock was set
\* back, and the readings of time.time() move as in NextTimed up to the
\* moment response_time_ms is taken.
NextRecent ==
    \/ \E c \in Conns :
          \/ Arrive(c)
          \/ Dispatch(c, {SubA}, MaxLeads)
          \/ AnalyzerReturns(c, {Bare("D_GOOD")}, WallClockSteps)
          \/ ResponderReturns(c, WallClockSteps)
          \/ SaveReturns(c, {0})
          \/ NotifierReturns(c, {0})
          \/ Finish(c)
    \/ Tick
    \/ ClockSetBack
    \/ ArriveStats
    \/ ServeStats
    \/ FinishStats

SpecRecent == Init /\ [][NextRecent]_vars

\* The statistics over a table that grows past the limit of the
\* recent-leads query.  The process starts on the database file of earlier
\* runs (init_db creates the table only IF NOT EXISTS): PriorLeads rows,
\* all of one second, every other one with its email sent.
PriorLeads == MaxStatsLeads - 2

PriorRow(i) ==
    RowOf(i, [name |-> SubA.name, email |-> SubA.email,
              company |-> SubA.company, message |-> SubA.message,
              phone |-> SubA.phone,
              lead_score |-> AnalysisOf(DocValue("D_GOOD")).lead_score,
              intent_classification |->
                  AnalysisOf(DocValue("D_GOOD")).intent_classification,
              response_time_ms |-> 0,
              email_sent |-> (i % 2 = 1),
              ai_response |-> AnalysisOf(DocValue("D_GOOD")).ai_response])

InitStats ==
    /\ config \in Configs
    /\ leads = [i \in 1..PriorLeads |-> PriorRow(i)]
    /\ sqlite_seq = PriorLeads
    /\ created_at = [i \in 1..PriorLeads |-> 0]
    /\ clock = 0
    /\ loop = 0
    /\ conn = [c \in Conns |-> IdleConn]
    /\ accepted = <<>>
    /\ stats = IdleStats

NextStats ==
    \/ \E c \in Conns :
          \/ Arrive(c)
          \/ Dispatch(c, {SubA}, MaxStatsLeads)
          \/ AnalyzerReturns(c, {Bare("D_GOOD")}, {0})
          \/ ResponderReturns(c, {0})
          \/ SaveReturns(c, {0})
          \/ NotifierReturns(c, {0})
          \/ Finish(c)
    \/ ArriveStats
    \/ ServeStats
    \/ FinishStats

SpecStats == InitStats /\ [][NextStats]_vars

\* The pipeline on replies that lack the score or the response.
DefaultsTexts ==
    {Bare(d) : d \in PartialDocs \cup {"D_EMPTY", "D_GOOD"}}
    \cup {TaggedFence("D_NO_SCORE"), BareFence("D_NO_REPLY")}

NextDefaults ==
    \E c \in Conns :
        \/ Arrive(c)
        \/ Dispatch(c, {SubA}, MaxLeads)
        \/ AnalyzerReturns(c, DefaultsTexts, {0})
        \/ ResponderReturns(c, {0})
        \/ SaveReturns(c, {0})
        \/ NotifierReturns(c, {0})
        \/ Finish(c)

SpecDefaults == Init /\ [][NextDefaults]_vars

\* ------------------------------------------------------------------ claims
Responded(c) == conn[c].pc = "responded"
IsErrorEnvelope(resp) == resp.status = 500 /\ resp.has = {"detail"}
IsSuccessEnvelope(resp) ==
    /\ resp.status = 200
    /\ resp.has = {"success", "message", "lead_id", "response_time_ms"}
LastLead == leads[Len(leads)]

\* C1: whenever the Analyzer step fails for a submission (no key, provider
\* error, timeout, undecodable or non-object output), the request ends with
\* the HTTP 500 envelope carrying a detail, the leads table is what it was
\* when the request started, and neither the Responder, the store nor the
\* Notifier was invoked for it.
C1_AnalysisFailureIsFatal ==
    \A c \in Conns :
        conn[c].failure = "analysis" =>
            /\ Responded(c)
            /\ IsErrorEnvelope(conn[c].resp)
            /\ conn[c].resp.detail # ""
            /\ leads = conn[c].before
            /\ conn[c].calls.analyzer = 1
            /\ conn[c].calls.responder = 0
            /\ conn[c].calls.store = 0
            /\ conn[c].calls.notifier = 0

\* an undecodable reply was rejected while the table already held a row
C1_Witness ==
    \E c \in Conns :
        /\ conn[c].failure = "analysis"
        /\ conn[c].resp.detail = "JSONDecodeError"
        /\ Len(leads) >= 1

\* C2: a submission whose analysis succeeded and whose append did not fail
\* has, when the request returns, exactly one row appended for it: the table
\* is the table at the start of the request plus one row, which holds this
\* submission, whatever the Responder returned and the Notifier did.
C2_ExactlyOneRecord ==
    \A c \in Conns :
        /\ (conn[c].pc \in {"analyzing", "emailing", "saving"}
               => leads = conn[c].before)
        /\ (/\ conn[c].pc \in {"notifying", "responded"}
            /\ conn[c].calls.responder >= 1
            /\ conn[c].failure # "persistence")
               => /\ Len(leads) = Len(conn[c].before) + 1
                  /\ SubSeq(leads, 1, Len(conn[c].before)) = conn[c].before
                  /\ LastLead.email = conn[c].sub.email
                  /\ LastLead.id = conn[c].lead_id
                  /\ conn[c].calls.store = 1

\* a request returned its one row although the mail was not sent and the
\* notification timed out
C2_Witness ==
    \E c \in Conns :
        /\ Responded(c)
        /\ conn[c].resp.status = 200
        /\ ~conn[c].email_sent
        /\ conn[c].notified = "timeout_expired"
        /\ Len(leads) = Len(conn[c].before) + 1
        /\ Len(conn[c].before) >= 1

\* C3: when the Responder does not deliver (no SMTP credentials, or an error
\* at connect, starttls, login or send) send_email_response returns False,
\* the pipeline goes on to the store, the appended row has email_sent false
\* and the request is Accepted unless the append itself fails; and a row has
\* email_sent true only if the transport took that submission's message.
C3_DeliveryFailureIsRecorded ==
    /\ \A c \in Conns :
        /\ (conn[c].pc \in {"saving", "notifying"} \/ conn[c].lead_id # 0)
              => (conn[c].email_sent => conn[c].transport_accepted)
        /\ (conn[c].calls.responder = 1 /\ ~conn[c].transport_accepted)
              => /\ conn[c].pc \in {"emailing", "saving", "notifying", "responded"}
                 /\ conn[c].failure \in {"", "persistence"}
                 /\ ~conn[c].email_sent
                 /\ (conn[c].lead_id # 0 => ~LastLead.email_sent)
                 /\ (Responded(c) /\ conn[c].failure = ""
                        => IsSuccessEnvelope(conn[c].resp))
        /\ (conn[c].lead_id # 0
              => (LastLead.email_sent => conn[c].transport_accepted))
    /\ \A i \in DOMAIN leads : leads[i].email_sent => config.smtp

\* a request was Accepted with email_sent false after an SMTP-level error
C3_Witness ==
    \E c \in Conns :
        /\ Responded(c)
        /\ config.smtp
        /\ ~conn[c].transport_accepted
        /\ IsSuccessEnvelope(conn[c].resp)
        /\ ~LastLead.email_sent
        /\ \E i \in DOMAIN leads : leads[i].email_sent

\* C4: the step that ends the Notifier call leaves the table as it is and
\* returns the success envelope with the lead_id and response_time_ms the
\* request held before the call, whether the notification ran, failed,
\* timed out or had no destination.
C4_NotifierNeverChangesOutcome ==
    [][\A c \in Conns :
          (conn[c].pc = "notifying" /\ conn'[c].pc # "notifying")
             => /\ conn'[c].pc = "responded"
                /\ conn'[c].resp.status = 200
                /\ conn'[c].resp.has =
                      {"success", "message", "lead_id", "response_time_ms"}
                /\ conn'[c].resp.lead_id = conn[c].lead_id
                /\ conn'[c].resp.response_time_ms = conn[c].response_time_ms
                /\ conn'[c].failure = ""
                /\ leads' = leads]_vars

\* a request was Accepted after its notification timed out, with a response
\* time that is not zero
C4_Witness ==
    \E c \in Conns :
        /\ Responded(c)
        /\ conn[c].notified = "timeout_expired"
        /\ conn[c].resp.status = 200
        /\ conn[c].resp.response_time_ms >= 1
        /\ conn[c].elapsed > 2 * conn[c].resp.response_time_ms + 1

\* C5: when save_lead fails after a successful analysis the request ends
\* with the HTTP 500 envelope carrying a detail, the table holds no row for
\* the submission (it is the table of the request's start), the Notifier is
\* not invoked, and the Responder has been invoked exactly once.
C5_PersistenceFailureIsFatal ==
    \A c \in Conns :
        conn[c].failure = "persistence" =>
            /\ Responded(c)
            /\ IsErrorEnvelope(conn[c].resp)
            /\ conn[c].resp.detail # ""
            /\ leads = conn[c].before
            /\ conn[c].lead_id = 0
            /\ conn[c].calls.notifier = 0
            /\ conn[c].calls.responder = 1
            /\ conn[c].calls.store = 1

\* an append failed after the mail had been sent, on a table holding a row
C5_Witness ==
    \E c \in Conns :
        /\ conn[c].failure = "persistence"
        /\ conn[c].email_sent
        /\ Len(leads) >= 1

\* C6: the lead_ids of the success envelopes are pairwise different, each is
\* the id of a row, and the ids of the rows increase strictly in insertion
\* order, in every reachable state of the connections' requests.
C6_LeadIdsUniqueAndIncreasing ==
    /\ \A i, j \in DOMAIN leads : i < j => leads[i].id < leads[j].id
    /\ \A i, j \in DOMAIN accepted : i < j => accepted[i] < accepted[j]
    /\ \A i \in DOMAIN accepted : \E k \in DOMAIN leads : leads[k].id = accepted[i]
    /\ \A c \in Conns : conn[c].lead_id # 0 =>
          /\ LastLead.id = conn[c].lead_id
          /\ \A k \in 1..(Len(leads) - 1) : leads[k].id < conn[c].lead_id

\* two requests were Accepted while another connection had a request waiting
C6_Witness ==
    /\ Len(accepted) >= 2
    /\ \E c \in Conns : conn[c].pc = "pending"

\* the field bounds as the claim states them
C7_OutOfBounds(sub) ==
    \/ sub.name.t = "none" \/ sub.name.len < 2 \/ sub.name.len > 100
    \/ sub.company.t = "none" \/ sub.company.len < 2 \/ sub.company.len > 100
    \/ sub.message.t = "none" \/ sub.message.len < 10 \/ sub.message.len > 1000
    \/ (sub.phone.t = "str" /\ sub.phone.len > 20)
    \/ sub.email \in {"not-an-email", NoEmail}

\* C7: a submission that breaks a field bound is answered before the
\* pipeline starts: no Analyzer, Responder, store or Notifier call is made
\* for it, the table is unchanged, and no row holds such a submission.
C7_InvalidSubmissionNeverEntersPipeline ==
    /\ \A c \in Conns :
         (conn[c].pc \notin {"idle", "pending"} /\ C7_OutOfBounds(conn[c].sub))
            => /\ Responded(c)
               /\ conn[c].resp.status = 422
               /\ conn[c].calls = NoCalls
               /\ leads = conn[c].before
    /\ \A i \in DOMAIN leads :
         ~C7_OutOfBounds([name |-> leads[i].name, email |-> leads[i].email,
                          company |-> leads[i].company,
                          message |-> leads[i].message,
                          phone |-> leads[i].phone])

\* a message of 9 characters was refused while the table held a row
C7_Witness ==
    \E c \in Conns :
        /\ Responded(c)
        /\ conn[c].sub.message = FStr(9)
        /\ conn[c].resp.status = 422
        /\ Len(leads) >= 1

\* C8: every pipeline run that started returns, and what it returns is one
\* of two envelopes: success with lead_id and response_time_ms, or HTTP 500
\* with a detail.
C8_ExactlyOneOutcome ==
    /\ [](\A c \in Conns :
            (Responded(c) /\ conn[c].calls.analyzer = 1)
               => /\ (IsSuccessEnvelope(conn[c].resp)
                        \/ (IsErrorEnvelope(conn[c].resp) /\ conn[c].resp.detail # ""))
                  /\ (IsSuccessEnvelope(conn[c].resp)
                        => /\ conn[c].resp.lead_id >= 1
                           /\ conn[c].resp.lead_id = conn[c].lead_id
                           /\ conn[c].failure = "")
                  /\ (IsErrorEnvelope(conn[c].resp) => conn[c].failure # ""))
    /\ \A c \in Conns : (conn[c].calls.analyzer = 1) ~> Responded(c)

\* a run returned the success envelope
C8_Witness ==
    \E c \in Conns :
        /\ Responded(c)
        /\ IsSuccessEnvelope(conn[c].resp)
        /\ conn[c].resp.lead_id = 2

IntentEnumeration == {"demo_request", "pricing_inquiry", "support_question",
                      "partnership", "general_inquiry", "unknown"}

\* C9: an intent outside the enumeration, or no intent, becomes "unknown":
\* every row of the table has an intent of the enumeration.
C9_StoredIntentInEnumeration ==
    \A i \in DOMAIN leads :
        /\ leads[i].intent_classification.t = "str"
        /\ leads[i].intent_classification.s \in IntentEnumeration

\* C10: the Analyzer fails on a score that is no integer or lies outside
\* 1..10: every row of the table has an integer score from 1 to 10.
C10_StoredScoreInRange ==
    \A i \in DOMAIN leads :
        /\ leads[i].lead_score.t = "int"
        /\ leads[i].lead_score.n >= 1
        /\ leads[i].lead_score.n <= 10

\* the statistics client holds an answer of get_stats
StatsAnswered == stats.pc = "responded" /\ stats.status = 200

\* C11: the recent_leads of the statistics are the min(10, total) records
\* stored last, the newest first, also among records stored within one
\* second.
C11_RecentLeadsNewestFirst ==
    StatsAnswered =>
        LET n == Len(stats.before)
            m == IF n < 10 THEN n ELSE 10
        IN /\ Len(stats.result.recent_leads) = m
           /\ stats.recent_ids = [k \in 1..m |-> stats.before[n + 1 - k].id]

\* a number of the statistics is zero, and is at most 100
IsZeroNumber(v) == IF v.t = "int" THEN v.n = 0 ELSE v.mant = <<>>
AtMostHundred(v) ==
    IF v.t = "int" THEN v.n <= 100 ELSE FloatLeq(v, FloatOfQuotient(100, 1))

\* C12: email_success_rate is 0 on an empty store and 100 * emailsSent /
\* total otherwise (as a float: the double nearest to that quotient), a
\* value from 0 to 100.
C12_EmailSuccessRate ==
    StatsAnswered =>
        LET rows == stats.before
            total == Len(rows)
            sent == Cardinality({i \in 1..total : rows[i].email_sent})
            rate == stats.result.email_success_rate
        IN /\ total = 0 => IsZeroNumber(rate)
           /\ total > 0 => rate = FloatOfQuotient(100 * sent, total)
           /\ AtMostHundred(rate)

\* C13: without the API key every submission that enters the pipeline is
\* rejected with HTTP 500 at the Analyzer step; the provider, the Responder,
\* the store and the Notifier are never called, and the table stays as it
\* was, however many submissions are processed.
C13_NoKeyRejectsEverySubmission ==
    ~config.api_key =>
        /\ leads = <<>>
        /\ sqlite_seq = 0
        /\ accepted = <<>>
        /\ \A c \in Conns :
             /\ conn[c].pc \in {"idle", "pending", "responded"}
             /\ conn[c].calls.provider = 0
             /\ conn[c].calls.responder = 0
             /\ conn[c].calls.store = 0
             /\ conn[c].calls.notifier = 0
             /\ (Responded(c) /\ ~C7_OutOfBounds(conn[c].sub)) =>
                    /\ IsErrorEnvelope(conn[c].resp)
                    /\ conn[c].resp.detail = "ANTHROPIC_API_KEY not set"
                    /\ conn[c].failure = "analysis"
                    /\ conn[c].calls.analyzer = 1

\* without the key a valid submission was rejected while the next one waits
C13_Witness ==
    /\ ~config.api_key
    /\ \E c, d \in Conns :
         /\ c # d
         /\ Responded(c)
         /\ conn[c].sub = SubB
         /\ conn[c].resp.status = 500
         /\ conn[d].pc = "pending"

\* C14: while one submission's pipeline waits inside the Analyzer or the
\* Responder call, the request of another connection can start its own
\* pipeline.
C14_OtherRequestsProgressDuringCalls ==
    \A c, d \in Conns :
        (/\ c # d
         /\ conn[c].pc \in {"analyzing", "emailing"}
         /\ conn[d].pc = "pending"
         /\ Len(leads) < MaxLeads)
            => ENABLED Dispatch(d, Submissions, MaxLeads)

\* C15: within one pipeline run the collaborators are called in the order
\* Analyzer, Responder, store, Notifier, each at most once and each only
\* after the one before it returned with success; the success envelope is
\* produced only after the Notifier call finished.
C15_CollaboratorOrder ==
    \A c \in Conns :
        LET k == conn[c].calls
            pc == conn[c].pc
        IN /\ k.analyzer <= 1 /\ k.provider <= 1 /\ k.responder <= 1
           /\ k.store <= 1 /\ k.notifier <= 1
           /\ k.notifier <= k.store
           /\ k.store <= k.responder
           /\ k.responder <= k.provider
           /\ k.provider <= k.analyzer
           /\ pc = "analyzing" => k.responder = 0
           /\ pc = "emailing" => k.responder = 1 /\ k.store = 0
           /\ pc = "saving" => k.store = 1 /\ k.notifier = 0
           /\ pc = "notifying" => k.notifier = 1 /\ conn[c].lead_id # 0
           /\ k.responder = 1 => conn[c].ai_result # NoAnalysis
           /\ k.notifier = 1 => conn[c].lead_id \in {leads[i].id : i \in DOMAIN leads}
           /\ (Responded(c) /\ conn[c].resp.status = 200) =>
                  /\ k = [analyzer |-> 1, provider |-> 1, responder |-> 1,
                          store |-> 1, notifier |-> 1]
                  /\ conn[c].notified # ""

\* a submission was accepted after its Telegram notification had been sent
C15_Witness ==
    \E c \in Conns :
        /\ Responded(c)
        /\ IsSuccessEnvelope(conn[c].resp)
        /\ conn[c].notified = "exit_0"
        /\ conn[c].calls.notifier = 1
        /\ conn[c].sub = SubB

\* C16: response_time_ms is taken once, when the Responder has returned and
\* before the store and the Notifier run: it is unset before, the time spent
\* in save_lead and in the notification never changes it, the stored row
\* and the success envelope carry that same value, and it is not negative.
C16_ResponseTimeSampledOnce ==
    [][\A c \in Conns :
         /\ conn'[c].pc \in {"analyzing", "emailing"} =>
                conn'[c].response_time_ms = 0
         /\ (conn[c].pc = "emailing" /\ conn'[c].pc = "saving") =>
                conn'[c].response_time_ms >= 0
         /\ (conn[c].pc \in {"saving", "notifying"} /\ conn'[c].pc # "idle") =>
                conn'[c].response_time_ms = conn[c].response_time_ms
         /\ (conn[c].pc = "saving" /\ conn'[c].pc = "notifying") =>
                /\ Len(leads') = Len(leads) + 1
                /\ leads'[Len(leads')].response_time_ms
                       = conn[c].response_time_ms
         /\ (conn[c].pc = "notifying" /\ conn'[c].resp.status = 200) =>
                /\ conn'[c].resp.response_time_ms = conn[c].response_time_ms
                /\ conn'[c].resp.response_time_ms >= 0
                /\ \E i \in DOMAIN leads' :
                     /\ leads'[i].id = conn'[c].resp.lead_id
                     /\ leads'[i].response_time_ms
                            = conn'[c].resp.response_time_ms
    ]_vars

\* replies whose object has no score, and replies whose object has no
\* response or an empty one
C17_NoScoreTexts ==
    {<<"D_EMPTY">>, <<"D_NO_SCORE">>,
     <<Fence, WordJson, Space, "D_NO_SCORE", Space, Fence>>}
C17_NoReplyTexts ==
    {<<"D_EMPTY">>, <<"D_NO_REPLY">>, <<"D_EMPTY_REPLY">>,
     <<Fence, Space, "D_NO_REPLY", Space, Fence>>}

\* C17: a reply object without a score gives score 5; a reply object without
\* a response, or with an empty one, still makes the Analyzer succeed with
\* the empty reply, the Responder is still called with that empty body, and
\* a submission accepted after it has its row store the defaulted values.
C17_DefaultsForMissingFields ==
    \A c \in Conns :
        /\ (\E t \in C17_NoScoreTexts : conn[c].reply = <<t>>) =>
               /\ conn[c].failure # "analysis"
               /\ conn[c].ai_result.lead_score = [t |-> "int", n |-> 5, s |-> ""]
               /\ (Responded(c) /\ conn[c].failure = "") =>
                      /\ IsSuccessEnvelope(conn[c].resp)
                      /\ \E i \in DOMAIN leads :
                           /\ leads[i].id = conn[c].resp.lead_id
                           /\ leads[i].lead_score = JInt(5)
        /\ (\E t \in C17_NoReplyTexts : conn[c].reply = <<t>>) =>
               /\ conn[c].failure # "analysis"
               /\ conn[c].ai_result.ai_response = [t |-> "str", n |-> 0, s |-> ""]
               /\ conn[c].calls.responder = 1
               /\ (Responded(c) /\ conn[c].failure = "") =>
                      /\ IsSuccessEnvelope(conn[c].resp)
                      /\ \E i \in DOMAIN leads :
                           /\ leads[i].id = conn[c].resp.lead_id
                           /\ leads[i].ai_response = JStr("")

\* a submission was accepted on a reply without score and response, its
\* empty email handed to the transport
C17_Witness ==
    \E c \in Conns :
        /\ conn[c].reply = <<Bare("D_EMPTY")>>
        /\ Responded(c)
        /\ IsSuccessEnvelope(conn[c].resp)
        /\ conn[c].email_sent
        /\ LastLead.id = conn[c].resp.lead_id
        /\ LastLead.lead_score = JInt(5)
        /\ LastLead.ai_response = JStr("")

\* C18: a JSON object text is parsed to that same object whether the reply
\* is the bare text, the text in a fence tagged json or the text in an
\* untagged fence, also when a string value of the object holds a fence
\* marker.
C18_ExtractionIsExact ==
    \A c \in Conns :
        \A d \in {"D_GOOD", "D_FENCED_REPLY"} :
            conn[c].reply \in {<<Bare(d)>>, <<TaggedFence(d)>>, <<BareFence(d)>>}
                => /\ conn[c].failure # "analysis"
                   /\ conn[c].ai_result.intent_classification
                          = JStr("demo_request")
                   /\ conn[c].ai_result.lead_score = JInt(9)
                   /\ conn[c].ai_result.ai_response
                          = IF d = "D_GOOD" THEN JStr("Hi Ana")
                            ELSE JStr("Run <fence> to start")

\* C19: the lead_id of a success envelope is the id of exactly one row, that
\* row is in the table when the envelope is returned, and it holds the
\* values of that same submission: its fields, its analysis, its email_sent
\* and its response time.
C19_LeadIdNamesOwnRecord ==
    \A c \in Conns :
        (Responded(c) /\ conn[c].resp.status = 200) =>
            /\ conn[c].resp.lead_id # 0
            /\ Cardinality({i \in DOMAIN leads :
                               leads[i].id = conn[c].resp.lead_id}) = 1
            /\ \A i \in DOMAIN leads :
                 leads[i].id = conn[c].resp.lead_id =>
                     /\ leads[i].name = conn[c].sub.name
                     /\ leads[i].email = conn[c].sub.email
                     /\ leads[i].company = conn[c].sub.company
                     /\ leads[i].message = conn[c].sub.message
                     /\ leads[i].phone = conn[c].sub.phone
                     /\ leads[i].intent_classification
                            = conn[c].ai_result.intent_classification
                     /\ leads[i].lead_score = conn[c].ai_result.lead_score
                     /\ leads[i].ai_response = conn[c].ai_result.ai_response
                     /\ leads[i].email_sent = conn[c].email_sent
                     /\ leads[i].response_time_ms
                            = conn[c].resp.response_time_ms

\* the second accepted submission got id 2 while row 1 holds another
\* submission's values
C19_Witness ==
    \E c \in Conns :
        /\ Responded(c)
        /\ IsSuccessEnvelope(conn[c].resp)
        /\ conn[c].resp.lead_id = 2
        /\ conn[c].sub = SubB
        /\ Len(leads) = 2
        /\ leads[1].name = SubA.name
        /\ leads[1].name # SubB.name
        /\ leads[2].name = SubB.name

\* C20: an answer of get_stats describes the table of one moment, also while
\* submissions arrive and are stored around it: total_leads and emails_sent
\* count the rows of that table, emails_sent <= total_leads, the success
\* rate is at most 100, recent_leads has exactly min(10, total_leads)
\* entries; and get_stats leaves the table as it found it.
C20_StatsAreOneSnapshot ==
    [][(stats.pc = "pending" /\ stats'.pc = "responded") =>
          /\ leads' = leads
          /\ created_at' = created_at
          /\ sqlite_seq' = sqlite_seq
          /\ stats'.status = 200 =>
                LET res == stats'.result
                IN /\ stats'.before = leads
                   /\ res.total_leads = Len(leads)
                   /\ res.emails_sent
                          = Cardinality({i \in DOMAIN leads :
                                            leads[i].email_sent})
                   /\ res.emails_sent <= res.total_leads
                   /\ AtMostHundred(res.email_success_rate)
                   /\ Len(res.recent_leads)
                          = IF res.total_leads < 10 THEN res.total_leads
                            ELSE 10
    ]_vars

\* the statistics of a table of eleven rows, taken after two leads were
\* stored in this run and while another submission waits
C20_Witness ==
    /\ StatsAnswered
    /\ stats.result.total_leads = 11
    /\ Len(stats.result.recent_leads) = 10
    /\ stats.result.emails_sent < stats.result.total_leads
    /\ stats.result.emails_sent > 0
    /\ \E c \in Conns : conn[c].pc = "pending"

====
